---- MODULE Spec2Model ----
(***************************************************************************)
(* Model of app.py: the POST /analyze pipeline of the phishing detector.   *)
(* One request at a time is followed through validation, normalisation,    *)
(* feature extraction (liveness probe, reputation lookup, WHOIS) and the   *)
(* language-model adjudication, up to the HTTP response.                   *)
(*                                                                         *)
(* URLs are sequences of one-character strings, so that strip, the scheme  *)
(* match, urlparse, lower-casing and the keyword search are computed.      *)
(* Display texts (finding values, reasons) are TLA+ strings.  Values that  *)
(* come back from JSON or from a library are tagged Python values.         *)
(***************************************************************************)
EXTENDS Integers, Sequences, FiniteSets, TLC

VARIABLES
    USE_GEMINI,            \* app.py:18, fixed at start-up
    UPTIMEROBOT_API_KEY,   \* app.py:16, TRUE iff a key is configured
    pc,                    \* position of the handler
    request,               \* the JSON body of the request being handled
    raw_url,               \* app.py:134
    full_url_for_analysis, \* app.py:137
    domain,                \* app.py:80
    features,              \* app.py:77, insertion-ordered <<key, value>> pairs
    prompt,                \* app.py:111-119, what is sent to the model
    ai_result,             \* app.py:143
    response,              \* what the client receives
    calls                  \* outbound-call events of the current request

vars == <<USE_GEMINI, UPTIMEROBOT_API_KEY, pc, request, raw_url,
          full_url_for_analysis, domain, features, prompt, ai_result, response,
          calls>>

(***************************************************************************)
(* Bounds of the model.                                                    *)
(***************************************************************************)
MaxPad == 1        \* whitespace characters around the submitted url
MaxDay == 2        \* day numbers of "now" and of WHOIS creation dates

(***************************************************************************)
(* Python values.                                                          *)
(***************************************************************************)
PyStr(s)  == [ty |-> "str", v |-> s]
PyInt(n)  == [ty |-> "int", v |-> n]
PyList(s) == [ty |-> "list", v |-> s]
PyDict(s) == [ty |-> "dict", v |-> s]        \* s: sequence of <<key, value>>
PyDate(d) == [ty |-> "datetime", v |-> d]    \* d: a day number
PyNone    == [ty |-> "NoneType", v |-> 0]
Raise(c)  == [ty |-> "raise", v |-> c]       \* an exception of class c in flight

IsRaise(x) == x.ty = "raise"

\* Python truthiness of a value
Truthy(x) ==
    CASE x.ty = "NoneType" -> FALSE
      [] x.ty = "int"      -> x.v # 0
      [] x.ty = "str"      -> x.v # ""
      [] x.ty = "list"     -> x.v # <<>>
      [] x.ty = "dict"     -> x.v # <<>>
      [] OTHER             -> TRUE

HasKey(pairs, k) == \E i \in 1..Len(pairs) : pairs[i][1] = k

Lookup(pairs, k) ==
    pairs[CHOOSE i \in 1..Len(pairs) :
            /\ pairs[i][1] = k
            /\ \A j \in 1..Len(pairs) : pairs[j][1] = k => j <= i][2]

\* x.get(k, default): only a dict has the method
DictGet(x, k, default) ==
    IF x.ty # "dict" THEN Raise("AttributeError")
    ELSE IF HasKey(x.v, k) THEN Lookup(x.v, k) ELSE default

\* x[k] with a string key k
Subscript(x, k) ==
    IF x.ty # "dict" THEN Raise("TypeError")
    ELSE IF HasKey(x.v, k) THEN Lookup(x.v, k) ELSE Raise("KeyError")

\* x[0]; of a string it is a one-character string, of which the callers
\* only use that it is a string
First(x) ==
    CASE x.ty = "list" -> IF x.v = <<>> THEN Raise("IndexError") ELSE x.v[1]
      [] x.ty = "str"  -> PyStr("<char>")
      [] x.ty = "dict" -> Raise("KeyError")
      [] OTHER         -> Raise("TypeError")

RECURSIVE Repr(_)
RECURSIVE ReprItems(_)
RECURSIVE ReprPairs(_)
ReprItems(s) ==
    IF s = <<>> THEN ""
    ELSE Repr(s[1]) \o (IF Len(s) > 1 THEN ", " ELSE "") \o ReprItems(Tail(s))
ReprPairs(s) ==
    IF s = <<>> THEN ""
    ELSE "'" \o s[1][1] \o "': " \o Repr(s[1][2])
         \o (IF Len(s) > 1 THEN ", " ELSE "") \o ReprPairs(Tail(s))
Repr(x) ==
    CASE x.ty = "str"      -> "'" \o x.v \o "'"
      [] x.ty = "int"      -> ToString(x.v)
      [] x.ty = "NoneType" -> "None"
      [] x.ty = "list"     -> "[" \o ReprItems(x.v) \o "]"
      [] x.ty = "dict"     -> "{" \o ReprPairs(x.v) \o "}"
      [] OTHER             -> "<" \o x.ty \o ">"

\* the text an f-string puts for {x}
Format(x) == IF x.ty = "str" THEN x.v ELSE Repr(x)

(***************************************************************************)
(* URL strings: sequences of one-character strings.                        *)
(***************************************************************************)
HTTP_PREFIX  == <<"h", "t", "t", "p", ":", "/", "/">>
HTTPS_PREFIX == <<"h", "t", "t", "p", "s", ":", "/", "/">>

UpperCase == <<"A", "B", "C", "D", "E", "F", "G", "H", "I", "J", "K", "L", "M", "N", "O", "P", "Q", "R", "S", "T", "U", "V", "W", "X", "Y", "Z">>
LowerCase == <<"a", "b", "c", "d", "e", "f", "g", "h", "i", "j", "k", "l", "m", "n", "o", "p", "q", "r", "s", "t", "u", "v", "w", "x", "y", "z">>
Digits    == <<"0", "1", "2", "3", "4", "5", "6", "7", "8", "9">>

InSeq(c, s) == \E i \in 1..Len(s) : s[i] = c
IsAlpha(c)  == InSeq(c, UpperCase) \/ InSeq(c, LowerCase)
IsSpace(c)  == c \in {" ", "\t", "\n", "\r"}

LowerChar(c) ==
    IF InSeq(c, UpperCase)
    THEN LowerCase[CHOOSE i \in 1..Len(UpperCase) : UpperCase[i] = c]
    ELSE c

\* str.lower()
lower(s) == [i \in 1..Len(s) |-> LowerChar(s[i])]

RECURSIVE lstrip(_)
lstrip(s) == IF s # <<>> /\ IsSpace(Head(s)) THEN lstrip(Tail(s)) ELSE s
RECURSIVE rstrip(_)
rstrip(s) ==
    IF s # <<>> /\ IsSpace(s[Len(s)]) THEN rstrip(SubSeq(s, 1, Len(s) - 1)) ELSE s

\* str.strip()
strip_none(s) == s
strip(s) == rstrip(lstrip(s))

StartsWith(s, p) == Len(s) >= Len(p) /\ SubSeq(s, 1, Len(p)) = p

\* p in s, for strings
Contains(s, p) ==
    \E i \in 0..(Len(s) - Len(p)) : SubSeq(s, i + 1, i + Len(p)) = p

\* index of the first character of s that is in set cs, 0 when there is none
FindFirst(s, cs) ==
    IF \E i \in 1..Len(s) : s[i] \in cs
    THEN CHOOSE i \in 1..Len(s) :
            s[i] \in cs /\ \A j \in 1..(i - 1) : s[j] \notin cs
    ELSE 0

\* re.match(r'^(https?://)', raw_url): the pattern has no IGNORECASE flag
SchemeMatch(s) == StartsWith(s, HTTP_PREFIX) \/ StartsWith(s, HTTPS_PREFIX)

\* app.py:137
Normalize(raw) == IF SchemeMatch(raw) THEN raw ELSE HTTPS_PREFIX \o raw

(***************************************************************************)
(* urllib.parse.urlparse, as far as app.py reads its result: the scheme    *)
(* (lower-cased), the netloc, and the ValueError for an unbalanced bracket *)
(* in the netloc.                                                          *)
(***************************************************************************)
SchemeChar(c) == IsAlpha(c) \/ InSeq(c, Digits) \/ c \in {"+", "-", "."}

urlparse(url) ==
    LET i         == FindFirst(url, {":"})
        hasScheme == /\ i > 1
                     /\ IsAlpha(url[1])
                     /\ \A j \in 1..(i - 1) : SchemeChar(url[j])
        scheme    == IF hasScheme THEN lower(SubSeq(url, 1, i - 1)) ELSE <<>>
        rest      == IF hasScheme THEN SubSeq(url, i + 1, Len(url)) ELSE url
        hasNetloc == StartsWith(rest, <<"/", "/">>)
        after     == IF hasNetloc THEN SubSeq(rest, 3, Len(rest)) ELSE <<>>
        stop      == FindFirst(after, {"/", "?", "#"})
        netloc    == IF stop = 0 THEN after ELSE SubSeq(after, 1, stop - 1)
        badIPv6   == InSeq("[", netloc) # InSeq("]", netloc)
    IN  IF hasNetloc /\ badIPv6
        THEN Raise("ValueError")
        ELSE [ty |-> "ParseResult", scheme |-> scheme, netloc |-> netloc]

\* app.py:87
keywords == <<<<"l", "o", "g", "i", "n">>,
              <<"v", "e", "r", "i", "f", "y">>,
              <<"b", "a", "n", "k">>,
              <<"a", "c", "c", "o", "u", "n", "t">>,
              <<"s", "e", "c", "u", "r", "e">>,
              <<"u", "p", "d", "a", "t", "e">>,
              <<"s", "i", "g", "n", "i", "n">>>>

\* app.py:88
CountKeywords(url) ==
    Cardinality({k \in 1..Len(keywords) : Contains(lower(url), keywords[k])})

(***************************************************************************)
(* Exceptions.  Bases(c) are the classes an exception of class c is an     *)
(* instance of; an except clause for class k catches c iff k \in Bases(c). *)
(***************************************************************************)
Bases(c) ==
    {c, "Exception"} \cup
    CASE c = "SSLError"         -> {"ConnectionError", "RequestException"}
      [] c = "ConnectTimeout"   -> {"ConnectionError", "Timeout", "RequestException"}
      [] c = "ReadTimeout"      -> {"Timeout", "RequestException"}
      [] c = "ConnectionError"  -> {"RequestException"}
      [] c = "TooManyRedirects" -> {"RequestException"}
      [] c = "HTTPError"        -> {"RequestException"}
      [] c = "JSONDecodeError"  -> {"InvalidJSONError", "RequestException", "ValueError"}
      [] c = "json.JSONDecodeError" -> {"ValueError"}
      [] OTHER                  -> {}

Catches(k, c) == k \in Bases(c)

\* what an outbound call comes back with
Raised(c)        == [kind |-> "raise", exc |-> c, status_code |-> 0, body |-> PyNone]
Replied(code, b) == [kind |-> "response", exc |-> "", status_code |-> code, body |-> b]

\* an HTTP body: text that is not JSON (json() then raises class c, which is
\* requests' JSONDecodeError, a RequestException), or a decoded JSON value
NotJson(c) == [ty |-> "notjson", v |-> c]

(***************************************************************************)
(* TOOL 1, app.py:32-41.                                                   *)
(***************************************************************************)
StatusExcept(c) ==
    IF Catches("SSLError", c) THEN PyStr("SSL Certificate Error")
    ELSE IF Catches("Timeout", c) THEN PyStr("Offline (Request Timed Out)")
    ELSE IF Catches("ConnectionError", c) THEN PyStr("Offline (Connection Failed)")
    ELSE IF Catches("RequestException", c) THEN PyStr("Could not be determined")
    ELSE Raise(c)

check_website_status(outcome) ==
    IF outcome.kind = "raise" THEN StatusExcept(outcome.exc)
    ELSE IF 200 <= outcome.status_code /\ outcome.status_code < 300
    THEN PyStr("Online (Status: " \o ToString(outcome.status_code) \o ")")
    ELSE PyStr("Responded with Error (Status: " \o ToString(outcome.status_code) \o ")")

(***************************************************************************)
(* TOOL 2, app.py:45-71.                                                   *)
(***************************************************************************)
\* app.py:47
ReputationAlwaysCalled(key) == TRUE
ReputationConfigured(key) == key

\* response.raise_for_status()
raise_for_status(outcome) ==
    IF 400 <= outcome.status_code /\ outcome.status_code < 600
    THEN Raise("HTTPError") ELSE PyNone

\* response.json()
json(outcome) ==
    IF outcome.body.ty = "notjson" THEN Raise(outcome.body.v) ELSE outcome.body

\* app.py:63-64
status_map(status) ==
    IF status.ty # "int" THEN "Unknown"
    ELSE CASE status.v = 0 -> "Paused"
           [] status.v = 1 -> "Not Checked Yet"
           [] status.v = 2 -> "Up"
           [] status.v = 8 -> "Seems Down"
           [] status.v = 9 -> "Down"
           [] OTHER        -> "Unknown"

\* app.py:61-68, on the decoded reply
ReadMonitors(data) ==
    LET stat     == DictGet(data, "stat", PyNone)
        monitors == DictGet(data, "monitors", PyNone)
    IN  IF IsRaise(stat) THEN stat
        ELSE IF ~(stat = PyStr("ok") /\ Truthy(monitors))
        THEN PyStr("Not found in monitoring service")
        ELSE LET monitor == First(Subscript(data, "monitors"))
                 status  == DictGet(monitor, "status", PyNone)
                 ratio   == DictGet(monitor, "custom_uptime_ratio", PyStr("N/A"))
             IN  IF IsRaise(monitor) THEN monitor
                 ELSE IF IsRaise(status) THEN status
                 ELSE PyStr("Monitored - Status: " \o status_map(status)
                            \o " (Uptime: " \o Format(ratio) \o "%)")

\* app.py:56-71, once the POST has come back
ReputationExcept(x) ==
    IF IsRaise(x) /\ Catches("RequestException", x.v)
    THEN PyStr("Could not be determined") ELSE x

get_uptimerobot_reputation(outcome) ==
    ReputationExcept(
        IF outcome.kind = "raise" THEN Raise(outcome.exc)
        ELSE IF IsRaise(raise_for_status(outcome)) THEN raise_for_status(outcome)
        ELSE IF IsRaise(json(outcome)) THEN json(outcome)
        ELSE ReadMonitors(json(outcome)))

(***************************************************************************)
(* TOOL 3, app.py:90-96: the WHOIS lookup came back with `outcome`, either *)
(* an exception or the creation_date attribute of the record.              *)
(***************************************************************************)
PLACEHOLDER == PyStr("Could not be determined")

\* datetime.now() - creation_date, .days
DaysSince(now, creation_date) ==
    IF creation_date.ty = "datetime" THEN PyInt(now - creation_date.v)
    ELSE Raise("TypeError")

DomainAge(outcome, now) ==
    LET got  == IF outcome.kind = "raise" THEN Raise(outcome.exc) ELSE outcome.body
        date == IF got.ty = "list" THEN First(got) ELSE got
        age  == IF IsRaise(date) THEN date
                ELSE IF ~Truthy(date) THEN PLACEHOLDER
                ELSE IF IsRaise(DaysSince(now, date)) THEN DaysSince(now, date)
                ELSE PyStr(ToString(DaysSince(now, date).v) \o " days")
    IN  IF IsRaise(age) /\ Catches("Exception", age.v) THEN PLACEHOLDER ELSE age

(***************************************************************************)
(* AI analysis, app.py:104-125.  The model's text is a sequence of tokens: *)
(* whitespace, the two markdown fence markers (three backquotes, with and  *)
(* without "json"), prose, and chunks that are the text of a JSON value.   *)
(***************************************************************************)
NOT_CONFIGURED ==
    PyDict(<< <<"verdict", PyStr("Error")>>,
              <<"reason", PyStr("AI is not configured.")>> >>)
FALLBACK ==
    PyDict(<< <<"verdict", PyStr("Suspicious")>>,
              <<"reason", PyStr("AI analysis failed.")>> >>)

\* app.py:105
GeminiAlwaysCalled(use) == TRUE
GeminiConfigured(use) == use

Ws         == [tok |-> "ws", val |-> PyNone]
FenceJson  == [tok |-> "fence_json", val |-> PyNone]
Fence      == [tok |-> "fence", val |-> PyNone]
Prose      == [tok |-> "prose", val |-> PyNone]
JsonText(x) == [tok |-> "json", val |-> x]

RECURSIVE strip_tokens_left(_)
strip_tokens_left(t) ==
    IF t # <<>> /\ Head(t) = Ws THEN strip_tokens_left(Tail(t)) ELSE t
RECURSIVE strip_tokens_right(_)
strip_tokens_right(t) ==
    IF t # <<>> /\ t[Len(t)] = Ws
    THEN strip_tokens_right(SubSeq(t, 1, Len(t) - 1)) ELSE t

\* the two replace calls: both fence markers are deleted wherever they are
remove_fences(t) == SelectSeq(t, LAMBDA x : x # FenceJson /\ x # Fence)

\* app.py:121
cleaned_text(text) == remove_fences(strip_tokens_right(strip_tokens_left(text)))

\* json.loads: one JSON value, whitespace allowed around it
json_loads(t) ==
    LET body == SelectSeq(t, LAMBDA x : x # Ws)
    IN  IF Len(body) = 1 /\ body[1].tok = "json" THEN body[1].val
        ELSE Raise("json.JSONDecodeError")

\* app.py:120-125, once generate_content has come back
analyze_with_gemini(outcome) ==
    LET got == IF outcome.kind = "raise" THEN Raise(outcome.exc)
               ELSE json_loads(cleaned_text(outcome.body))
    IN  IF IsRaise(got) /\ Catches("Exception", got.v) THEN FALLBACK ELSE got

\* app.py:110, the evidence lines of the prompt
feature_string(feats) ==
    [i \in 1..Len(feats) |-> "- " \o feats[i][1] \o ": " \o Format(feats[i][2])]

(***************************************************************************)
(* Responses, app.py:136, 141, 146-154.                                    *)
(***************************************************************************)
NoResponse      == [status |-> 0]
UrlRequired     == [status |-> 400, error |-> "URL is required"]
CouldNotProcess == [status |-> 500, error |-> "Could not process the URL"]
\* an exception that leaves the view function: the framework answers 500
Unhandled(c)    == [status |-> 500, unhandled |-> c]

\* app.py:146-148
FindingsDropFirst(reason, feats) ==
    <<"AI Analysis: " \o Format(reason)>> \o
    [i \in 1..(Len(feats) - 1) |-> feats[i + 1][1] \o ": " \o Format(feats[i + 1][2])]
Findings(reason, feats) ==
    <<"AI Analysis: " \o Format(reason)>> \o
    [i \in 1..Len(feats) |-> feats[i][1] \o ": " \o Format(feats[i][2])]

\* app.py:146-154
Respond(raw, result, feats) ==
    LET reason  == Subscript(result, "reason")
        verdict == Subscript(result, "verdict")
    IN  IF IsRaise(reason) THEN Unhandled(reason.v)
        ELSE IF IsRaise(verdict) THEN Unhandled(verdict.v)
        ELSE [status |-> 200, url |-> raw, verdict |-> verdict,
              findings |-> Findings(reason, feats.v)]

(***************************************************************************)
(* The environment: request bodies and what each outbound call may come    *)
(* back with.                                                              *)
(***************************************************************************)
Spaces(n) == [i \in 1..n |-> " "]

SampleUrls ==
    { <<>>,
      <<"a", ".", "i", "o">>,
      <<"h", "t", "t", "p", ":", "/", "/", "a", ".", "i", "o">>,
      <<"h", "t", "t", "p", "s", ":", "/", "/", "a", ".", "i", "o">>,
      <<"H", "T", "T", "P", ":", "/", "/", "a", ".", "i", "o">>,
      <<"H", "t", "t", "p", "s", ":", "/", "/", "B", "a", "n", "k", ".", "i", "o", "/", "L", "O", "G", "I", "N">>,
      <<"[", "a", ".", "i", "o">>,
      <<"s", "e", "c", "u", "r", "e", "-", "l", "o", "g", "i", "n", "-", "b", "a", "n", "k", ".", "i", "o">> }

\* {"url": <string>}, {} and {"url": null}
Bodies ==
    { [kind |-> "str", url |-> Spaces(n) \o u \o Spaces(m)] :
        n \in 0..MaxPad, m \in {0, MaxPad}, u \in SampleUrls }
    \cup { [kind |-> "no_url", url |-> <<>>], [kind |-> "null", url |-> <<>>] }

LivenessOutcomes ==
    { Replied(200, PyNone), Replied(404, PyNone) }
    \cup { Raised(c) : c \in {"SSLError", "ConnectTimeout", "ConnectionError",
                              "TooManyRedirects"} }

Monitor(status, ratio) ==
    PyDict(<< <<"status", status>>, <<"custom_uptime_ratio", ratio>> >>)
MonitorsReply(stat, monitors) ==
    PyDict(<< <<"stat", PyStr(stat)>>, <<"monitors", monitors>> >>)

ReputationReplies ==
    { MonitorsReply("ok", PyList(<<Monitor(PyInt(2), PyStr("99.98"))>>)),
      MonitorsReply("ok", PyList(<<PyDict(<< <<"status", PyInt(5)>> >>)>>)),
      MonitorsReply("ok", PyList(<<>>)),
      PyDict(<< <<"stat", PyStr("fail")>> >>),
      PyList(<<>>),
      MonitorsReply("ok", PyStr("none")),
      MonitorsReply("ok", PyList(<<PyInt(1)>>)),
      MonitorsReply("ok", PyDict(<< <<"total", PyInt(0)>> >>)),
      MonitorsReply("ok", PyInt(3)) }

ReputationOutcomes ==
    { Raised("ReadTimeout"), Replied(503, PyDict(<<>>)),
      Replied(200, NotJson("JSONDecodeError")) }
    \cup { Replied(200, d) : d \in ReputationReplies }

WhoisOutcomes ==
    { Raised("PywhoisError"), Replied(0, PyNone), Replied(0, PyStr("before Aug-1996")),
      Replied(0, PyList(<<>>)), Replied(0, PyList(<<PyDate(MaxDay), PyDate(0)>>)) }
    \cup { Replied(0, PyDate(d)) : d \in 0..(MaxDay + 1) }

Verdict(verdict, reason) ==
    PyDict(<< <<"verdict", PyStr(verdict)>>, <<"reason", PyStr(reason)>> >>)

ModelAnswers ==
    { Verdict("Looks Safe", "The website is confirmed to be live."),
      Verdict("Phishing Detected", "Keywords on a new domain."),
      Verdict("Safe", "Nothing found."),
      PyDict(<< <<"verdict", PyStr("High Risk")>> >>),
      PyDict(<< <<"reason", PyStr("No verdict given.")>> >>),
      PyList(<<Verdict("Suspicious", "In a list.")>>),
      PyStr("Looks Safe"),
      PyNone }

ModelTexts ==
    { <<JsonText(x)>> : x \in ModelAnswers }
    \cup { <<FenceJson, Ws, JsonText(x), Ws, Fence, Ws>> : x \in ModelAnswers }
    \cup { <<>>, <<Prose>>, <<Prose, Ws, JsonText(Verdict("Looks Safe", "After prose."))>> }

GeminiOutcomes ==
    { Raised("ResourceExhausted") } \cup { Replied(0, t) : t \in ModelTexts }

(***************************************************************************)
(* The handler, app.py:132-154, cut at its four blocking calls.            *)
(***************************************************************************)
Init ==
    /\ USE_GEMINI \in BOOLEAN
    /\ UPTIMEROBOT_API_KEY \in BOOLEAN
    /\ pc = "idle"
    /\ request = [kind |-> "none", url |-> <<>>]
    /\ raw_url = <<>>
    /\ full_url_for_analysis = <<>>
    /\ domain = <<>>
    /\ features = PyNone
    /\ prompt = <<>>
    /\ ai_result = PyNone
    /\ response = NoResponse
    /\ calls = <<>>

\* an outbound call is issued / has come back
IssueCallTwice(log, svc) ==
    log \o <<[svc |-> svc, ev |-> "start"], [svc |-> svc, ev |-> "start"]>>
IssueCall(log, svc) == Append(log, [svc |-> svc, ev |-> "start"])
Returned(log, svc, outcome) ==
    Append(log, [svc |-> svc, ev |-> "end", outcome |-> outcome])

\* app.py:134, request.get_json().get('url', '')
get_url(body) ==
    CASE body.kind = "str"    -> body.url
      [] body.kind = "no_url" -> <<>>

\* app.py:84-88
LocalFeatures(url) ==
    << <<"URL Length", PyInt(Len(url))>>,
       <<"Uses HTTPS",
         PyStr(IF urlparse(url).scheme = <<"h", "t", "t", "p", "s">>
               THEN "Yes" ELSE "No")>>,
       <<"Number of Suspicious Keywords", PyInt(CountKeywords(url))>> >>

\* app.py:99-101 and 140-141: extraction gives None, the handler answers 500
AbortExtraction(log) ==
    /\ features' = PyNone
    /\ response' = CouldNotProcess
    /\ calls' = log
    /\ pc' = "done"
    /\ UNCHANGED <<prompt, ai_result>>

\* app.py:83-91: the reputation is stored, the local features are computed
\* and the WHOIS lookup is issued
StoreReputation(feats, reputation, log) ==
    /\ features' = PyDict(feats \o << <<"Monitoring Reputation", reputation>> >>
                          \o LocalFeatures(full_url_for_analysis))
    /\ calls' = IssueCall(log, "whois")
    /\ pc' = "whois"
    /\ UNCHANGED <<prompt, ai_result, response>>

\* app.py:134-139 and 79-82
Analyze(body) ==
    /\ pc = "idle"
    /\ request' = body
    /\ UNCHANGED <<USE_GEMINI, UPTIMEROBOT_API_KEY, prompt, ai_result>>
    /\ IF body.kind = "null"
       THEN /\ response' = Unhandled("AttributeError")
            /\ pc' = "done"
            /\ UNCHANGED <<raw_url, full_url_for_analysis, domain, features, calls>>
       ELSE LET raw    == strip(get_url(body))
                full   == Normalize(raw)
                parsed == urlparse(full)
            IN  /\ raw_url' = raw
                /\ IF raw = <<>>
                   THEN /\ response' = UrlRequired
                        /\ pc' = "done"
                        /\ UNCHANGED <<full_url_for_analysis, domain, features, calls>>
                   ELSE /\ full_url_for_analysis' = full
                        /\ IF IsRaise(parsed)
                           THEN /\ features' = PyNone
                                /\ response' = CouldNotProcess
                                /\ pc' = "done"
                                /\ UNCHANGED <<domain, calls>>
                           ELSE /\ domain' = parsed.netloc
                                /\ features' = PyDict(<<>>)
                                /\ calls' = IssueCall(calls, "liveness")
                                /\ pc' = "status"
                                /\ UNCHANGED response

\* app.py:82-83 and 47-57
StatusReturns(outcome) ==
    /\ pc = "status"
    /\ UNCHANGED <<USE_GEMINI, UPTIMEROBOT_API_KEY, request, raw_url,
                   full_url_for_analysis, domain>>
    /\ LET log    == Returned(calls, "liveness", outcome)
           status == check_website_status(outcome)
           feats  == << <<"Real-Time Status", status>> >>
       IN  \* an exception that is no RequestException would reach app.py:99
           IF IsRaise(status) THEN AbortExtraction(log)
           ELSE IF ReputationConfigured(UPTIMEROBOT_API_KEY)
           THEN /\ features' = PyDict(feats)
                /\ calls' = IssueCall(log, "reputation")
                /\ pc' = "reputation"
                /\ UNCHANGED <<prompt, ai_result, response>>
           ELSE StoreReputation(feats, PyStr("Not configured"), log)

\* app.py:57-71 and 83-91
ReputationReturns(outcome) ==
    /\ pc = "reputation"
    /\ UNCHANGED <<USE_GEMINI, UPTIMEROBOT_API_KEY, request, raw_url,
                   full_url_for_analysis, domain>>
    /\ LET log        == Returned(calls, "reputation", outcome)
           reputation == get_uptimerobot_reputation(outcome)
       IN  IF IsRaise(reputation) THEN AbortExtraction(log)
           ELSE StoreReputation(features.v, reputation, log)

\* app.py:91-98, 139-143 and 105-120
WhoisReturns(outcome, now) ==
    /\ pc = "whois"
    /\ UNCHANGED <<USE_GEMINI, UPTIMEROBOT_API_KEY, request, raw_url,
                   full_url_for_analysis, domain>>
    /\ LET log   == Returned(calls, "whois", outcome)
           age   == DomainAge(outcome, now)
           feats == PyDict(features.v \o << <<"Domain Age", age>> >>)
       IN  IF IsRaise(age) THEN AbortExtraction(log)
           ELSE /\ features' = feats
                /\ IF GeminiConfigured(USE_GEMINI)
                   THEN /\ prompt' = [url |-> full_url_for_analysis,
                                      evidence |-> feature_string(feats.v)]
                        /\ calls' = IssueCall(log, "gemini")
                        /\ pc' = "gemini"
                        /\ UNCHANGED <<ai_result, response>>
                   ELSE /\ ai_result' = NOT_CONFIGURED
                        /\ response' = Respond(raw_url, NOT_CONFIGURED, feats)
                        /\ calls' = log
                        /\ pc' = "done"
                        /\ UNCHANGED prompt

\* app.py:120-125 and 143-154
GeminiReturns(outcome) ==
    /\ pc = "gemini"
    /\ UNCHANGED <<USE_GEMINI, UPTIMEROBOT_API_KEY, request, raw_url,
                   full_url_for_analysis, domain, features, prompt>>
    /\ LET result == analyze_with_gemini(outcome)
       IN  /\ ai_result' = result
           /\ response' = Respond(raw_url, result, features)
           /\ calls' = Returned(calls, "gemini", outcome)
           /\ pc' = "done"

Next ==
    \/ \E body \in Bodies : Analyze(body)
    \/ \E outcome \in LivenessOutcomes : StatusReturns(outcome)
    \/ \E outcome \in ReputationOutcomes : ReputationReturns(outcome)
    \/ \E outcome \in WhoisOutcomes : WhoisReturns(outcome, MaxDay)  \* today is day MaxDay
    \/ \E outcome \in GeminiOutcomes : GeminiReturns(outcome)

Spec == Init /\ [][Next]_vars

(***************************************************************************)
(* Vocabulary of the properties.                                           *)
(***************************************************************************)
IsBlank(s) == \A i \in 1..Len(s) : IsSpace(s[i])

\* s starts with http:// or https:// in any letter case
SchemeMatchAnyCase(s) ==
    StartsWith(lower(s), HTTP_PREFIX) \/ StartsWith(lower(s), HTTPS_PREFIX)

Started(svc) == \E i \in 1..Len(calls) : calls[i].svc = svc /\ calls[i].ev = "start"
Ended(svc)   == \E i \in 1..Len(calls) : calls[i].svc = svc /\ calls[i].ev = "end"
OutcomeOf(svc) ==
    calls[CHOOSE i \in 1..Len(calls) : calls[i].svc = svc /\ calls[i].ev = "end"].outcome

EvidenceKeys ==
    <<"Real-Time Status", "Monitoring Reputation", "URL Length", "Uses HTTPS",
      "Number of Suspicious Keywords", "Domain Age">>

FiveVerdicts ==
    {PyStr("Phishing Detected"), PyStr("High Risk"), PyStr("Suspicious"),
     PyStr("Looks Safe"), PyStr("Error")}

\* the request passed validation and its normalized URL parsed
Accepted ==
    /\ request.kind = "str"
    /\ ~IsBlank(request.url)
    /\ ~IsRaise(urlparse(full_url_for_analysis))

\* the model's cleaned output is a JSON object with both keys
WellFormedAnswer(text) ==
    LET x == json_loads(cleaned_text(text))
    IN  x.ty = "dict" /\ HasKey(x.v, "verdict") /\ HasKey(x.v, "reason")

\* the monitoring service's reply is an object whose 'monitors', if any, is
\* a list of objects
WellShapedReply(body) ==
    /\ body.ty = "dict"
    /\ HasKey(body.v, "monitors") =>
          /\ Lookup(body.v, "monitors").ty = "list"
          /\ \A i \in 1..Len(Lookup(body.v, "monitors").v) :
                Lookup(body.v, "monitors").v[i].ty = "dict"

ReputationFailed(outcome) ==
    \/ outcome.kind = "raise"
    \/ outcome.status_code >= 400
    \/ ~WellShapedReply(outcome.body)

(***************************************************************************)
(* C1: every request whose url is non-empty after trimming and whose       *)
(* normalized URL parses ends with a 200 response, whatever the liveness   *)
(* probe, the reputation lookup, the WHOIS lookup and the language model   *)
(* come back with.                                                         *)
(***************************************************************************)
C1_UpstreamNeverFatal ==
    (pc = "done" /\ Accepted) => response.status = 200

(***************************************************************************)
(* C2: with the credential configured, analyze_with_gemini gives exactly   *)
(* verdict 'Suspicious' with the fixed fallback reason whenever the model  *)
(* call raises or its cleaned output is not a JSON object carrying both    *)
(* 'verdict' and 'reason'.                                                 *)
(***************************************************************************)
C2_FallbackOnBadAnswer ==
    (USE_GEMINI /\ Ended("gemini")
        /\ (\/ OutcomeOf("gemini").kind = "raise"
            \/ ~WellFormedAnswer(OutcomeOf("gemini").body)))
    => ai_result = PyDict(<< <<"verdict", PyStr("Suspicious")>>,
                             <<"reason", PyStr("AI analysis failed.")>> >>)

(***************************************************************************)
(* C3: in every 200 response the verdict is one of the five fixed strings, *)
(* and 'Error' appears only when the language-model credential is not      *)
(* configured.                                                             *)
(***************************************************************************)
C3_VerdictIsOneOfFive ==
    response.status = 200 =>
        /\ response.verdict \in FiveVerdicts
        /\ response.verdict = PyStr("Error") => ~USE_GEMINI

(***************************************************************************)
(* C4: the URL used for analysis is the trimmed input unchanged when it    *)
(* starts with http:// or https:// in any letter case, and 'https://'      *)
(* followed by the input otherwise.                                        *)
(***************************************************************************)
C4_NormalizeAnyCase ==
    (pc # "idle" /\ request.kind = "str" /\ raw_url # <<>>) =>
        full_url_for_analysis =
            IF SchemeMatchAnyCase(raw_url) THEN raw_url
            ELSE <<"h", "t", "t", "p", "s", ":", "/", "/">> \o raw_url

(***************************************************************************)
(* C5: a request whose body has no 'url' field, or whose 'url' is empty    *)
(* after trimming whitespace, is answered 400 {"error": "URL is required"} *)
(* before normalization, feature extraction or adjudication: no outbound   *)
(* call is made for it.                                                    *)
(***************************************************************************)
C5_EmptyUrlRejected ==
    (pc # "idle" /\ request.kind \in {"no_url", "str"} /\ IsBlank(request.url)) =>
        /\ pc = "done"
        /\ response.status = 400
        /\ response.error = "URL is required"
        /\ calls = <<>>
        /\ full_url_for_analysis = <<>>
        /\ features = PyNone
        /\ prompt = <<>>
        /\ ai_result = PyNone

C5_Witness ==
    /\ pc = "done"
    /\ request.kind = "str"
    /\ request.url # <<>>
    /\ IsBlank(request.url)
    /\ response.status = 400

(***************************************************************************)
(* C6: in every 200 response, findings is the AI reason first, then one    *)
(* '<name>: <value>' entry per evidence key, in the order the keys were    *)
(* computed; none is omitted, duplicated or reordered, and a failed lookup *)
(* contributes its placeholder (Domain Age 'Could not be determined' when  *)
(* WHOIS raises or gives no creation date).                                *)
(***************************************************************************)
C6_FindingsMirrorEvidence ==
    response.status = 200 =>
        /\ features.ty = "dict"
        /\ Len(features.v) = Len(EvidenceKeys)
        /\ \A i \in 1..Len(EvidenceKeys) : features.v[i][1] = EvidenceKeys[i]
        /\ Len(response.findings) = 1 + Len(EvidenceKeys)
        /\ response.findings[1] =
              "AI Analysis: " \o Format(Subscript(ai_result, "reason"))
        /\ \A i \in 1..Len(EvidenceKeys) :
              response.findings[i + 1] =
                  EvidenceKeys[i] \o ": " \o Format(features.v[i][2])
        /\ (OutcomeOf("whois").kind = "raise" \/ OutcomeOf("whois").body = PyNone)
              => response.findings[7] = "Domain Age: Could not be determined"
        /\ (Ended("reputation") /\ OutcomeOf("reputation").kind = "raise")
              => response.findings[3] = "Monitoring Reputation: Could not be determined"

C6_Witness ==
    /\ response.status = 200
    /\ USE_GEMINI
    /\ OutcomeOf("whois").kind = "raise"
    /\ response.findings[7] = "Domain Age: Could not be determined"
    /\ response.findings[2] = "Real-Time Status: Online (Status: 200)"

(***************************************************************************)
(* C7: when the language-model credential is not configured, the result of *)
(* analyze_with_gemini is exactly verdict 'Error' with reason 'AI is not   *)
(* configured.', whatever the URL and the evidence, no call to the         *)
(* language model is made, and the response is 200 with first finding      *)
(* 'AI Analysis: AI is not configured.'.                                   *)
(***************************************************************************)
C7_NotConfiguredVerdict ==
    ~USE_GEMINI =>
        /\ ~Started("gemini")
        /\ prompt = <<>>
        /\ pc # "gemini"
        /\ (pc = "done" /\ features.ty = "dict") =>
              /\ ai_result = PyDict(<< <<"verdict", PyStr("Error")>>,
                                       <<"reason", PyStr("AI is not configured.")>> >>)
              /\ response.status = 200
              /\ response.verdict = PyStr("Error")
              /\ response.findings[1] = "AI Analysis: AI is not configured."

C7_Witness ==
    /\ ~USE_GEMINI
    /\ pc = "done"
    /\ response.status = 200
    /\ Ended("whois")

(***************************************************************************)
(* C8: when no monitoring-service credential is configured, the reputation *)
(* is 'Not configured' for every domain and no request to the monitoring   *)
(* service is issued while the request is processed.                       *)
(***************************************************************************)
C8_ReputationNotConfigured ==
    ~UPTIMEROBOT_API_KEY =>
        /\ ~Started("reputation")
        /\ pc # "reputation"
        /\ Ended("liveness") =>
              /\ features.ty = "dict"
              /\ HasKey(features.v, "Monitoring Reputation")
              /\ Lookup(features.v, "Monitoring Reputation") = PyStr("Not configured")

C8_Witness ==
    /\ ~UPTIMEROBOT_API_KEY
    /\ pc = "done"
    /\ response.status = 200
    /\ response.findings[3] = "Monitoring Reputation: Not configured"

(***************************************************************************)
(* C9: with a monitoring-service credential configured, the reputation     *)
(* lookup always gives a string and never raises: a transport failure, an  *)
(* HTTP error status, a body that is not JSON and JSON of an unexpected    *)
(* shape all give 'Could not be determined', and feature extraction goes   *)
(* on.                                                                     *)
(***************************************************************************)
C9_ReputationNeverRaises ==
    (UPTIMEROBOT_API_KEY /\ Ended("reputation")) =>
        /\ features.ty = "dict"
        /\ HasKey(features.v, "Monitoring Reputation")
        /\ Lookup(features.v, "Monitoring Reputation").ty = "str"
        /\ ReputationFailed(OutcomeOf("reputation")) =>
              Lookup(features.v, "Monitoring Reputation") = PyStr("Could not be determined")
        /\ response.status # 500

(***************************************************************************)
(* C10: within one request the outbound calls are made one after the other *)
(* in the order liveness probe, reputation lookup, WHOIS lookup, language  *)
(* model, each coming back (with a result or a failure) before the next is *)
(* issued; each is issued a single time and none is issued again after a   *)
(* failure.  The calls the pipeline makes are the liveness probe, the      *)
(* reputation lookup when its credential is configured, the WHOIS lookup   *)
(* and the language-model call when its credential is configured; a 200    *)
(* response has seen each of them exactly once.                            *)
(***************************************************************************)
PipelineCalls ==
    <<"liveness">> \o (IF UPTIMEROBOT_API_KEY THEN <<"reputation">> ELSE <<>>)
    \o <<"whois">> \o (IF USE_GEMINI THEN <<"gemini">> ELSE <<>>)

C10_CallsSequentialOnce ==
    /\ Len(calls) <= 2 * Len(PipelineCalls)
    /\ \A i \in 1..Len(calls) :
          /\ calls[i].svc = PipelineCalls[(i + 1) \div 2]
          /\ calls[i].ev = IF i % 2 = 1 THEN "start" ELSE "end"
    /\ (Len(calls) % 2 = 1) <=> pc \in {"status", "reputation", "whois", "gemini"}
    /\ response.status = 200 => Len(calls) = 2 * Len(PipelineCalls)
    /\ (pc # "idle" /\ Accepted) => Started("liveness")

C10_Witness ==
    /\ response.status = 200
    /\ Len(calls) = 8
    /\ OutcomeOf("liveness").kind = "raise"
    /\ OutcomeOf("reputation").kind = "raise"
    /\ OutcomeOf("whois").kind = "raise"
    /\ OutcomeOf("gemini").kind = "raise"

====
